---- MODULE Spec2Model ----
(***************************************************************************)
(* FlutterBridge (src/python_bridge/flutter_bridge.py): the JSON-RPC       *)
(* read / dispatch / respond loop over stdin and stdout, its sixteen       *)
(* handlers and the session state they change.                             *)
(***************************************************************************)
EXTENDS Integers, Sequences, FiniteSets, TLC

\* ------------------------------------------------------------------ bounds
\* Number of lines the parent process writes to the bridge's stdin.
MaxFrames == 2

\* ------------------------------------------------------------- JSON values
\* Python None / JSON null.
NoneVal == "None"
\* A key that is absent from a JSON object (dict.get falls to its default).
Missing == "<missing>"
\* A JSON array, the unhashable value a "method" field can hold.
ListVal == "<list>"

\* JSON-RPC error codes of run().
PARSE_ERROR == -32700
METHOD_NOT_FOUND == -32601
INTERNAL_ERROR == -32000

\* The keys of the dispatch table built by __init__.
Methods ==
    { "generate_identity", "load_identity", "export_identity", "import_identity",
      "add_contact", "remove_contact", "list_contacts", "verify_contact",
      "send_message", "send_voice_message", "poll_mailbox", "get_messages",
      "get_network_status", "configure_relay", "configure_mailbox", "shutdown" }

\* The params value of a request: a JSON object (type "dict") with the keys the
\* handlers read, each Missing or a string; or a JSON value that is no object.
ParamKeys == {"passphrase", "import_data", "label", "public_key", "contact_id", "text"}

EmptyDict ==
    [type |-> "dict", passphrase |-> Missing, import_data |-> Missing, label |-> Missing,
     public_key |-> Missing, contact_id |-> Missing, text |-> Missing]

NotDict == [EmptyDict EXCEPT !.type = "list"]

\* The request has no "params" key at all.
NoParams == [EmptyDict EXCEPT !.type = "missing"]

\* Public keys the identity provider and the keystore can hand out.
Keys == {"K1", "K2"}

\* import_data texts: valid JSON with a good key, with a key the identity
\* provider rejects, without the key, and text that is not JSON.
ImportGood == "{public_key:K2}"
ImportBadKey == "{public_key:zz}"
ImportNoKey == "{}"
ImportNotJson == "not json"

\* ------------------------------------------------------------ input lines
\* A line of stdin after strip(): blank, text that is not JSON, a JSON value
\* that is no object, or a JSON object with its id, method and params fields.
\* nl: the line ended with a line separator (FALSE only for text before EOF).
Line(kind, id, method, params) ==
    [kind |-> kind, id |-> id, method |-> method, params |-> params, nl |-> TRUE]

Blank == Line("blank", Missing, Missing, NotDict)
NotJson == Line("notjson", Missing, Missing, NotDict)
Scalar == Line("value", Missing, Missing, NotDict)
\* Bytes that are not UTF-8: readline raises UnicodeDecodeError on them.
Undecodable == Line("undecodable", Missing, Missing, NotDict)
Obj(id, method, params) == Line("object", id, method, params)
NoLine == Line("none", Missing, Missing, NotDict)

Pass(p) == [EmptyDict EXCEPT !.passphrase = p]
Import(d, p) == [EmptyDict EXCEPT !.import_data = d, !.passphrase = p]
Contact(l, k) == [EmptyDict EXCEPT !.label = l, !.public_key = k]
Cid(c) == [EmptyDict EXCEPT !.contact_id = c]
Msg(c, t) == [EmptyDict EXCEPT !.contact_id = c, !.text = t]

\* The lines the parent sends.
Frames ==
    { Blank, NotJson, Scalar, Undecodable,
      Obj("7", "bogus", EmptyDict), Obj(Missing, Missing, NotDict),
      Obj("7", ListVal, EmptyDict),
      Obj("7", "generate_identity", Pass("x")),
      Obj(NoneVal, "generate_identity", Pass("")),
      Obj("7", "generate_identity", NoParams),
      Obj("7", "load_identity", Pass("x")),
      Obj(Missing, "load_identity", EmptyDict),
      Obj("7", "export_identity", NoParams),
      Obj(NoneVal, "export_identity", NotDict),
      Obj("7", "import_identity", Import(ImportGood, "x")),
      Obj("7", "import_identity", Import(ImportBadKey, "x")),
      Obj("7", "import_identity", Import(ImportNoKey, "x")),
      Obj("7", "import_identity", Import(ImportNotJson, "x")),
      Obj("7", "import_identity", Import(ImportGood, Missing)),
      Obj("7", "add_contact", Contact("bob", "K1")),
      Obj("7", "add_contact", Contact(Missing, "K1")),
      Obj("7", "remove_contact", Cid("c1")),
      Obj("7", "remove_contact", EmptyDict),
      Obj("7", "list_contacts", NoParams),
      Obj("7", "verify_contact", Cid("c1")),
      Obj("7", "send_message", Msg("c1", "hi")),
      Obj("7", "send_message", NotDict),
      Obj("7", "send_voice_message", Cid("c1")),
      Obj(Missing, "send_voice_message", EmptyDict),
      Obj("7", "poll_mailbox", NoParams),
      Obj("7", "get_messages", NotDict),
      Obj("7", "get_network_status", NoParams),
      Obj("7", "configure_relay", NotDict),
      Obj("7", "configure_mailbox", EmptyDict),
      Obj("7", "shutdown", NoParams),
      Obj(NoneVal, "shutdown", NotDict) }

\* Text the parent can leave unterminated before it closes the stream.
PartialFrames ==
    { Blank, NotJson, Obj("7", "poll_mailbox", NoParams) }

\* ------------------------------------------------------------- responses
\* The result value of a success response, by shape.
NoResult ==
    [type |-> "none", public_key |-> Missing, fingerprint |-> Missing,
     contact_id |-> Missing, text |-> Missing]

Result(type) == [NoResult EXCEPT !.type = type]

\* Identity.fingerprint_hex and Identity.public_key_hex of the identity with key k.
fingerprint_hex(k) == IF k = "K1" THEN "F1" ELSE IF k = "K2" THEN "F2" ELSE Missing
public_key_hex(k) == k

\* {'fingerprint': ..., 'public_key': ..., 'is_loaded': True}
IdentityResult(k) ==
    [NoResult EXCEPT !.type = "is_loaded", !.public_key = public_key_hex(k),
                     !.fingerprint = fingerprint_hex(k)]

\* A frame written to stdout: {'jsonrpc', 'id', 'result'} or {'jsonrpc', 'id', 'error'}.
ResultResponse(request_id, result) ==
    [id |-> request_id, kind |-> "result", code |-> 0, message |-> "", detail |-> "",
     result |-> result]

ErrorResponse(request_id, code, message, detail) ==
    [id |-> request_id, kind |-> "error", code |-> code, message |-> message,
     detail |-> detail, result |-> NoResult]

\* ------------------------------------------------------------------ state
VARIABLES
    stdin,        \* lines written by the parent and not yet read
    closed,       \* the parent closed its end of stdin
    sent,         \* number of lines the parent has written
    pc,           \* position of run()
    line,         \* run(): the line last read
    request_id,   \* run(): request.get('id')
    method,       \* run(): request.get('method', '')
    params,       \* run(): request.get('params', {})
    result,       \* run(): the value the awaited handler returned
    exc,          \* run(): str(e) of the exception the handler raised
    identity,     \* self._identity: NoneVal or the key of the loaded identity
    contacts,     \* self._contacts: 0 for None, else the n-th ContactManager built
    running,      \* self._running
    out,          \* frames written to stdout and flushed
    logged,       \* tracebacks printed to stderr
    touched,      \* collaborators the handler in flight has called
    managers,     \* number of ContactManager objects constructed
    accepted,     \* number of non-blank lines read
    out_at_read,  \* Len(out) when the line in hand was read
    session_at_read, \* << identity, contacts, running >> when it was read
    logged_at_read \* logged when it was read

vars ==
    << stdin, closed, sent, pc, line, request_id, method, params, result, exc,
       identity, contacts, running, out, logged, touched, managers, accepted,
       out_at_read, session_at_read, logged_at_read >>

input == << stdin, closed, sent >>
locals == << line, request_id, method, params, result, exc >>
session == << identity, contacts, running >>
ghost == << touched, managers, accepted, out_at_read, session_at_read, logged_at_read >>

\* FlutterBridge.__init__ and the first entry to run().
Init ==
    /\ stdin = << >>
    /\ closed = FALSE
    /\ sent = 0
    /\ pc = "while"
    /\ line = NoLine
    /\ request_id = NoneVal
    /\ method = ""
    /\ params = EmptyDict
    /\ result = NoResult
    /\ exc = ""
    /\ identity = NoneVal
    /\ contacts = 0
    /\ running = TRUE
    /\ out = << >>
    /\ logged = 0
    /\ touched = {}
    /\ managers = 0
    /\ accepted = 0
    /\ out_at_read = 0
    /\ session_at_read = << NoneVal, 0, TRUE >>
    /\ logged_at_read = 0

\* ----------------------------------------------------------- parent process
\* The parent writes one newline-terminated line.
ParentSend ==
    /\ ~closed
    /\ sent < MaxFrames
    /\ \E f \in Frames : stdin' = Append(stdin, f)
    /\ sent' = sent + 1
    /\ UNCHANGED << closed, pc, locals, session, out, logged, ghost >>

\* The parent closes the stream after a complete line.
ParentClose ==
    /\ ~closed
    /\ closed' = TRUE
    /\ UNCHANGED << stdin, sent, pc, locals, session, out, logged, ghost >>

\* The parent closes the stream after text without a line separator.
ParentClosePartial ==
    /\ ~closed
    /\ sent < MaxFrames
    /\ \E f \in PartialFrames : stdin' = Append(stdin, [f EXCEPT !.nl = FALSE])
    /\ sent' = sent + 1
    /\ closed' = TRUE
    /\ UNCHANGED << pc, locals, session, out, logged, ghost >>

\* ------------------------------------------------------- response writer
\* Mutant of send_result: the response is written without the request's id.
send_result_without_id(rid, res) == out' = Append(out, ResultResponse(NoneVal, res))

\* _send_result: one line written to stdout and flushed.
send_result(rid, res) == out' = Append(out, ResultResponse(rid, res))

\* _send_error: one line written to stdout and flushed.
send_error(rid, code, message, detail) ==
    out' = Append(out, ErrorResponse(rid, code, message, detail))

\* except Exception: traceback.print_exc(file=sys.stderr), then the next iteration.
LogException ==
    /\ logged' = logged + 1
    /\ pc' = "while"
    /\ UNCHANGED out

\* ------------------------------------------------------------------ run()
\* Mutant of WhileRunning: the loop never consults self._running.
WhileRunning_ignoring_flag ==
    /\ pc = "while"
    /\ pc' = "readline"
    /\ request_id' = NoneVal
    /\ method' = ""
    /\ params' = EmptyDict
    /\ result' = NoResult
    /\ exc' = ""
    /\ touched' = {}
    /\ UNCHANGED << input, line, session, out, logged, managers, accepted,
                    out_at_read, session_at_read, logged_at_read >>

\* while self._running:
\* The bindings of the previous iteration are dead from here on: each is
\* assigned again before it is read.
WhileRunning ==
    /\ pc = "while"
    /\ pc' = IF running THEN "readline" ELSE "exit"
    /\ request_id' = NoneVal
    /\ method' = ""
    /\ params' = EmptyDict
    /\ result' = NoResult
    /\ exc' = ""
    /\ touched' = {}
    /\ UNCHANGED << input, line, session, out, logged, managers, accepted,
                    out_at_read, session_at_read, logged_at_read >>

\* The lines of s from position n on.
From(s, n) == SubSeq(s, n, Len(s))

\* readline that does not break at end of file.
ReadLine_eof_continue ==
    /\ pc = "readline"
    /\ IF stdin = << >>
         THEN /\ closed
              /\ line' = NoLine
              /\ pc' = "while"
              /\ UNCHANGED << stdin, logged >>
         ELSE /\ line' = Head(stdin)
              /\ IF Head(stdin).kind = "undecodable"
                   THEN /\ \E n \in 2..(Len(stdin) + 1) : stdin' = From(stdin, n)
                        /\ logged' = logged + 1
                        /\ pc' = "while"
                   ELSE /\ stdin' = Tail(stdin)
                        /\ pc' = "strip"
                        /\ UNCHANGED logged
    /\ out_at_read' = Len(out)
    /\ session_at_read' = session
    /\ logged_at_read' = logged
    /\ UNCHANGED << closed, sent, request_id, method, params, result, exc, session,
                    out, touched, managers, accepted >>

\* line = sys.stdin.readline(); if not line: break
\* readline returns the next line, or at end of file whatever text is left.
\* On bytes it cannot decode it raises: the outer except logs the error, and
\* the lines buffered in the same chunk are lost with the bad bytes.
ReadLine ==
    /\ pc = "readline"
    /\ IF stdin = << >>
         THEN /\ closed
              /\ line' = NoLine
              /\ pc' = "exit"
              /\ UNCHANGED << stdin, logged >>
         ELSE /\ line' = Head(stdin)
              /\ IF Head(stdin).kind = "undecodable"
                   THEN /\ \E n \in 2..(Len(stdin) + 1) : stdin' = From(stdin, n)
                        /\ logged' = logged + 1
                        /\ pc' = "while"
                   ELSE /\ stdin' = Tail(stdin)
                        /\ pc' = "strip"
                        /\ UNCHANGED logged
    /\ out_at_read' = Len(out)
    /\ session_at_read' = session
    /\ logged_at_read' = logged
    /\ UNCHANGED << closed, sent, request_id, method, params, result, exc, session,
                    out, touched, managers, accepted >>

\* strip without the test for an empty line.
Strip_no_blank_check ==
    /\ pc = "strip"
    /\ pc' = "loads"
    /\ accepted' = accepted + 1
    /\ UNCHANGED << input, locals, session, out, logged, touched, managers,
                    out_at_read, session_at_read, logged_at_read >>

\* line = line.strip(); if not line: continue
Strip ==
    /\ pc = "strip"
    /\ IF line.kind = "blank"
         THEN pc' = "while" /\ UNCHANGED accepted
         ELSE pc' = "loads" /\ accepted' = accepted + 1
    /\ UNCHANGED << input, locals, session, out, logged, touched, managers,
                    out_at_read, session_at_read, logged_at_read >>

\* Mutant of JsonLoads: the decode error is left to the outer except, which
\* only logs it.
JsonLoads_uncaught ==
    /\ pc = "loads"
    /\ IF line.kind = "notjson"
         THEN LogException
         ELSE /\ pc' = "get"
              /\ UNCHANGED << out, logged >>
    /\ UNCHANGED << input, locals, session, ghost >>

\* request = json.loads(line), with the JSONDecodeError branch.
JsonLoads ==
    /\ pc = "loads"
    /\ IF line.kind = "notjson"
         THEN /\ send_error(NoneVal, PARSE_ERROR, "Parse error", "")
              /\ pc' = "while"
         ELSE /\ pc' = "get"
              /\ UNCHANGED out
    /\ UNCHANGED << input, locals, session, logged, ghost >>

\* dict.get(key) of the decoded request: a key that is absent reads as None.
JsonId(l) == IF l.id = Missing THEN NoneVal ELSE l.id
\* dict.get('method', '')
JsonMethod(l) == IF l.method = Missing THEN "" ELSE l.method
\* dict.get('params', {})
JsonParams(l) == IF l.params.type = "missing" THEN EmptyDict ELSE l.params

\* Mutant of GetFields: a decoded value that is no object is answered with an
\* error response.
GetFields_answering ==
    /\ pc = "get"
    /\ IF line.kind = "object"
         THEN /\ request_id' = JsonId(line)
              /\ method' = JsonMethod(line)
              /\ params' = JsonParams(line)
              /\ pc' = "lookup"
              /\ UNCHANGED << out, logged >>
         ELSE /\ send_error(NoneVal, INTERNAL_ERROR, "Internal error", "not an object")
              /\ logged' = logged + 1
              /\ pc' = "while"
              /\ UNCHANGED << request_id, method, params >>
    /\ UNCHANGED << input, line, result, exc, session, ghost >>

\* request_id, method, params = request.get(...); a decoded value that is no
\* object has no get(): AttributeError reaches the outer except.
GetFields ==
    /\ pc = "get"
    /\ IF line.kind = "object"
         THEN /\ request_id' = JsonId(line)
              /\ method' = JsonMethod(line)
              /\ params' = JsonParams(line)
              /\ pc' = "lookup"
              /\ UNCHANGED << out, logged >>
         ELSE /\ LogException
              /\ UNCHANGED << request_id, method, params >>
    /\ UNCHANGED << input, line, result, exc, session, ghost >>

\* Mutant of Lookup: an unknown method is reported with the internal-error code.
Lookup_wrong_code ==
    /\ pc = "lookup"
    /\ IF method = ListVal
         THEN LogException
         ELSE IF method \notin Methods
                THEN /\ send_error(request_id, INTERNAL_ERROR, "Method not found", method)
                     /\ pc' = "while"
                     /\ UNCHANGED logged
                ELSE /\ pc' = "await"
                     /\ UNCHANGED << out, logged >>
    /\ UNCHANGED << input, locals, session, ghost >>

\* Mutant of Lookup: an unknown method is skipped without a response.
Lookup_silent ==
    /\ pc = "lookup"
    /\ IF method = ListVal
         THEN LogException
         ELSE /\ pc' = IF method \notin Methods THEN "while" ELSE "await"
              /\ UNCHANGED << out, logged >>
    /\ UNCHANGED << input, locals, session, ghost >>

\* handler = self._methods.get(method); if handler is None: method not found.
\* An unhashable method raises TypeError, which reaches the outer except.
Lookup ==
    /\ pc = "lookup"
    /\ IF method = ListVal
         THEN LogException
         ELSE IF method \notin Methods
                THEN /\ send_error(request_id, METHOD_NOT_FOUND, "Method not found", method)
                     /\ pc' = "while"
                     /\ UNCHANGED logged
                ELSE /\ pc' = "await"
                     /\ UNCHANGED << out, logged >>
    /\ UNCHANGED << input, locals, session, ghost >>

\* --------------------------------------------------------------- handlers
\* str(e) of the exceptions the handlers and their collaborators raise.
NoGetError == "'list' object has no attribute 'get'"
IndexTypeError == "list indices must be integers or slices, not str"
JSONDecodeError == "Expecting value"
KeyStoreError == "keystore failure"
PublicKeyError == "invalid public key"
ContactStoreError == "contact store failure"

\* str(KeyError(key))
KeyError(key) ==
    CASE key = "label" -> "'label'"
      [] key = "public_key" -> "'public_key'"
      [] key = "contact_id" -> "'contact_id'"
      [] key = "text" -> "'text'"
      [] OTHER -> "'?'"

\* params.get(key, ''): the value, or '' when the key is absent.
Get(p, key) == IF p[key] = Missing THEN "" ELSE p[key]

\* The exception params[key] raises, or "" when it yields a value.
ItemError(p, key) ==
    IF p.type # "dict" THEN IndexTypeError
    ELSE IF p[key] = Missing THEN KeyError(key)
    ELSE ""

\* json.loads(import_data)['public_key']: the key, Missing when the object has
\* none, NoneVal when the text is not JSON.
ImportedKey(d) ==
    CASE d = ImportGood -> "K2"
      [] d = ImportBadKey -> "zz"
      [] d = ImportNoKey -> Missing
      [] OTHER -> NoneVal

\* return value / raise of the awaited handler (line 116).
\* The handler started as a task the loop does not wait for.
Return_unawaited(r) == result' = r /\ exc' = "" /\ pc' = "while"

Return(r) == result' = r /\ exc' = "" /\ pc' = "send_result"
Raise(e) == result' = NoResult /\ exc' = e /\ pc' = "except"

Awaiting(m) == pc = "await" /\ method = m

\* Mutant of generate_identity: the new identity is installed before the
\* passphrase is checked.
generate_identity_assign_first ==
    /\ Awaiting("generate_identity")
    /\ \E k \in Keys, saved \in BOOLEAN :
         /\ identity' = k
         /\ IF params.type # "dict"
              THEN Raise(NoGetError) /\ touched' = {"Identity"}
            ELSE IF Get(params, "passphrase") = ""
              THEN Raise("Passphrase is required") /\ touched' = {"Identity"}
            ELSE IF ~saved
              THEN Raise(KeyStoreError) /\ touched' = {"Identity", "KeyStore"}
            ELSE Return(IdentityResult(k)) /\ touched' = {"Identity", "KeyStore"}
    /\ UNCHANGED << input, line, request_id, method, params, contacts, running, out,
                    logged, managers, accepted, out_at_read, session_at_read, logged_at_read >>

\* Identity.generate() yields some key; keystore.save succeeds or raises.
generate_identity ==
    /\ Awaiting("generate_identity")
    /\ \E k \in Keys, saved \in BOOLEAN :
         IF params.type # "dict"
           THEN Raise(NoGetError) /\ touched' = {"Identity"} /\ UNCHANGED identity
         ELSE IF Get(params, "passphrase") = ""
           THEN /\ Raise("Passphrase is required")
                /\ touched' = {"Identity"}
                /\ UNCHANGED identity
         ELSE IF ~saved
           THEN /\ Raise(KeyStoreError)
                /\ touched' = {"Identity", "KeyStore"}
                /\ UNCHANGED identity
         ELSE /\ identity' = k
              /\ touched' = {"Identity", "KeyStore"}
              /\ Return(IdentityResult(k))
    /\ UNCHANGED << input, line, request_id, method, params, contacts, running, out,
                    logged, managers, accepted, out_at_read, session_at_read, logged_at_read >>

\* Mutant of load_identity: the value of keystore.load is assigned even when
\* the load failed, clearing the identity.
load_identity_clears_on_failure ==
    /\ Awaiting("load_identity")
    /\ \E k \in Keys \cup {NoneVal} :
         IF params.type # "dict"
           THEN Raise(NoGetError) /\ touched' = {} /\ UNCHANGED identity
         ELSE IF Get(params, "passphrase") = ""
           THEN Raise("Passphrase is required") /\ touched' = {} /\ UNCHANGED identity
         ELSE IF k = NoneVal
           THEN Raise(KeyStoreError) /\ touched' = {"KeyStore"} /\ identity' = NoneVal
         ELSE /\ identity' = k
              /\ touched' = {"KeyStore"}
              /\ Return(IdentityResult(k))
    /\ UNCHANGED << input, line, request_id, method, params, contacts, running, out,
                    logged, managers, accepted, out_at_read, session_at_read, logged_at_read >>

\* keystore.load yields the stored identity or raises.
load_identity ==
    /\ Awaiting("load_identity")
    /\ \E k \in Keys \cup {NoneVal} :
         IF params.type # "dict"
           THEN Raise(NoGetError) /\ touched' = {} /\ UNCHANGED identity
         ELSE IF Get(params, "passphrase") = ""
           THEN Raise("Passphrase is required") /\ touched' = {} /\ UNCHANGED identity
         ELSE IF k = NoneVal
           THEN Raise(KeyStoreError) /\ touched' = {"KeyStore"} /\ UNCHANGED identity
         ELSE /\ identity' = k
              /\ touched' = {"KeyStore"}
              /\ Return(IdentityResult(k))
    /\ UNCHANGED << input, line, request_id, method, params, contacts, running, out,
                    logged, managers, accepted, out_at_read, session_at_read, logged_at_read >>

\* Mutant of ExportResult: the public key is exported in both fields.
ExportResult_key_as_fingerprint(k) ==
    [NoResult EXCEPT !.type = "export_data", !.public_key = public_key_hex(k),
                     !.fingerprint = public_key_hex(k)]

\* {'export_data': json.dumps({'public_key': ..., 'fingerprint': ...})}
ExportResult(k) ==
    [NoResult EXCEPT !.type = "export_data", !.public_key = public_key_hex(k),
                     !.fingerprint = fingerprint_hex(k)]

export_identity ==
    /\ Awaiting("export_identity")
    /\ IF identity = NoneVal
         THEN Raise("No identity loaded")
         ELSE Return(ExportResult(identity))
    /\ UNCHANGED << input, line, request_id, method, params, session, out, logged,
                    ghost >>

\* import_identity that drops the held identity before it decodes the data.
import_identity_clears_first ==
    /\ Awaiting("import_identity")
    /\ IF params.type # "dict"
         THEN Raise(NoGetError) /\ touched' = {} /\ UNCHANGED identity
       ELSE IF Get(params, "import_data") = "" \/ Get(params, "passphrase") = ""
         THEN /\ Raise("Import data and passphrase required")
              /\ touched' = {}
              /\ UNCHANGED identity
       ELSE IF ImportedKey(params.import_data) = NoneVal
         THEN Raise(JSONDecodeError) /\ touched' = {} /\ identity' = NoneVal
       ELSE IF ImportedKey(params.import_data) = Missing
         THEN Raise(KeyError("public_key")) /\ touched' = {} /\ identity' = NoneVal
       ELSE IF ImportedKey(params.import_data) \notin Keys
         THEN Raise(PublicKeyError) /\ touched' = {"Identity"} /\ identity' = NoneVal
       ELSE /\ identity' = ImportedKey(params.import_data)
            /\ touched' = {"Identity"}
            /\ Return(IdentityResult(ImportedKey(params.import_data)))
    /\ UNCHANGED << input, line, request_id, method, params, contacts, running, out,
                    logged, managers, accepted, out_at_read, session_at_read, logged_at_read >>

\* Identity.from_public_key_hex yields the identity of that key or raises.
import_identity ==
    /\ Awaiting("import_identity")
    /\ IF params.type # "dict"
         THEN Raise(NoGetError) /\ touched' = {} /\ UNCHANGED identity
       ELSE IF Get(params, "import_data") = "" \/ Get(params, "passphrase") = ""
         THEN /\ Raise("Import data and passphrase required")
              /\ touched' = {}
              /\ UNCHANGED identity
       ELSE IF ImportedKey(params.import_data) = NoneVal
         THEN Raise(JSONDecodeError) /\ touched' = {} /\ UNCHANGED identity
       ELSE IF ImportedKey(params.import_data) = Missing
         THEN Raise(KeyError("public_key")) /\ touched' = {} /\ UNCHANGED identity
       ELSE IF ImportedKey(params.import_data) \notin Keys
         THEN Raise(PublicKeyError) /\ touched' = {"Identity"} /\ UNCHANGED identity
       ELSE /\ identity' = ImportedKey(params.import_data)
            /\ touched' = {"Identity"}
            /\ Return(IdentityResult(ImportedKey(params.import_data)))
    /\ UNCHANGED << input, line, request_id, method, params, contacts, running, out,
                    logged, managers, accepted, out_at_read, session_at_read, logged_at_read >>

\* if self._contacts is None: self._contacts = ContactManager(...)
InitContacts ==
    IF contacts = 0
      THEN /\ contacts' = managers + 1
           /\ managers' = managers + 1
           /\ touched' = {"ContactManager"}
      ELSE UNCHANGED << contacts, managers, touched >>

\* The keyword arguments are evaluated before self._contacts.add is called;
\* add returns the contact or raises.
add_contact ==
    /\ Awaiting("add_contact")
    /\ InitContacts
    /\ \E added \in BOOLEAN :
         IF ItemError(params, "label") # ""
           THEN Raise(ItemError(params, "label"))
         ELSE IF ItemError(params, "public_key") # ""
           THEN Raise(ItemError(params, "public_key"))
         ELSE IF ~added
           THEN Raise(ContactStoreError)
         ELSE Return(Result("contact"))
    /\ UNCHANGED << input, line, request_id, method, params, identity, running, out,
                    logged, accepted, out_at_read, session_at_read, logged_at_read >>

\* remove_contact and verify_contact: the store must exist; params['contact_id']
\* is evaluated, then the store call returns or raises.
ContactById ==
    \E found \in BOOLEAN :
      IF contacts = 0
        THEN Raise("Contacts not initialized") /\ UNCHANGED touched
      ELSE IF ItemError(params, "contact_id") # ""
        THEN Raise(ItemError(params, "contact_id")) /\ UNCHANGED touched
      ELSE IF ~found
        THEN Raise(ContactStoreError) /\ touched' = {"ContactManager"}
      ELSE Return(Result("success")) /\ touched' = {"ContactManager"}

remove_contact ==
    /\ Awaiting("remove_contact")
    /\ ContactById
    /\ UNCHANGED << input, line, request_id, method, params, session, out, logged,
                    managers, accepted, out_at_read, session_at_read, logged_at_read >>

list_contacts ==
    /\ Awaiting("list_contacts")
    /\ InitContacts
    /\ Return(Result("contacts"))
    /\ UNCHANGED << input, line, request_id, method, params, identity, running, out,
                    logged, accepted, out_at_read, session_at_read, logged_at_read >>

verify_contact ==
    /\ Awaiting("verify_contact")
    /\ ContactById
    /\ UNCHANGED << input, line, request_id, method, params, session, out, logged,
                    managers, accepted, out_at_read, session_at_read, logged_at_read >>

\* Mutant of send_message: the params are read before the identity is checked.
send_message_params_first ==
    /\ Awaiting("send_message")
    /\ IF ItemError(params, "contact_id") # ""
         THEN Raise(ItemError(params, "contact_id"))
       ELSE IF ItemError(params, "text") # ""
         THEN Raise(ItemError(params, "text"))
       ELSE IF identity = NoneVal
         THEN Raise("No identity loaded")
       ELSE Return([NoResult EXCEPT !.type = "text", !.contact_id = params.contact_id,
                                    !.text = params.text])
    /\ UNCHANGED << input, line, request_id, method, params, session, out, logged,
                    ghost >>

send_message ==
    /\ Awaiting("send_message")
    /\ IF identity = NoneVal
         THEN Raise("No identity loaded")
       ELSE IF ItemError(params, "contact_id") # ""
         THEN Raise(ItemError(params, "contact_id"))
       ELSE IF ItemError(params, "text") # ""
         THEN Raise(ItemError(params, "text"))
       ELSE Return([NoResult EXCEPT !.type = "text", !.contact_id = params.contact_id,
                                    !.text = params.text])
    /\ UNCHANGED << input, line, request_id, method, params, session, out, logged,
                    ghost >>

send_voice_message ==
    /\ Awaiting("send_voice_message")
    /\ IF identity = NoneVal
         THEN Raise("No identity loaded")
       ELSE IF ItemError(params, "contact_id") # ""
         THEN Raise(ItemError(params, "contact_id"))
       ELSE Return([NoResult EXCEPT !.type = "voice", !.contact_id = params.contact_id])
    /\ UNCHANGED << input, line, request_id, method, params, session, out, logged,
                    ghost >>

poll_mailbox ==
    /\ Awaiting("poll_mailbox")
    /\ Return(Result("messages"))
    /\ UNCHANGED << input, line, request_id, method, params, session, out, logged,
                    ghost >>

\* contact_id = params.get('contact_id', '') needs params to have get().
get_messages ==
    /\ Awaiting("get_messages")
    /\ IF params.type # "dict"
         THEN Raise(NoGetError)
         ELSE Return(Result("messages"))
    /\ UNCHANGED << input, line, request_id, method, params, session, out, logged,
                    ghost >>

get_network_status ==
    /\ Awaiting("get_network_status")
    /\ Return(Result("network_status"))
    /\ UNCHANGED << input, line, request_id, method, params, session, out, logged,
                    ghost >>

configure_relay ==
    /\ Awaiting("configure_relay")
    /\ Return(Result("success"))
    /\ UNCHANGED << input, line, request_id, method, params, session, out, logged,
                    ghost >>

configure_mailbox ==
    /\ Awaiting("configure_mailbox")
    /\ Return(Result("success"))
    /\ UNCHANGED << input, line, request_id, method, params, session, out, logged,
                    ghost >>

shutdown ==
    /\ Awaiting("shutdown")
    /\ running' = FALSE
    /\ Return(Result("success"))
    /\ UNCHANGED << input, line, request_id, method, params, identity, contacts, out,
                    logged, ghost >>

\* self._send_result(request_id, result)  (line 117)
SendResult ==
    /\ pc = "send_result"
    /\ send_result(request_id, result)
    /\ pc' = "while"
    /\ UNCHANGED << input, locals, session, logged, ghost >>

\* Mutant of SendInternalError: the error is reported and then ends the loop.
SendInternalError_then_stop ==
    /\ pc = "except"
    /\ send_error(request_id, INTERNAL_ERROR, "Internal error", exc)
    /\ pc' = "exit"
    /\ UNCHANGED << input, locals, session, logged, ghost >>

\* except Exception as e: self._send_error(request_id, -32000, ...)  (lines 118-122)
SendInternalError ==
    /\ pc = "except"
    /\ send_error(request_id, INTERNAL_ERROR, "Internal error", exc)
    /\ pc' = "while"
    /\ UNCHANGED << input, locals, session, logged, ghost >>

Handler ==
    \/ generate_identity \/ load_identity \/ export_identity \/ import_identity
    \/ add_contact \/ remove_contact \/ list_contacts \/ verify_contact
    \/ send_message \/ send_voice_message \/ poll_mailbox \/ get_messages
    \/ get_network_status \/ configure_relay \/ configure_mailbox \/ shutdown

Bridge ==
    \/ WhileRunning \/ ReadLine \/ Strip \/ JsonLoads \/ GetFields \/ Lookup
    \/ Handler \/ SendResult \/ SendInternalError

Parent == ParentSend \/ ParentClose \/ ParentClosePartial

Next == Parent \/ Bridge

Spec == Init /\ [][Next]_vars

\* The event loop keeps running the coroutine of run(): a step of the bridge
\* that stays possible is eventually taken. A handler that neither returns nor
\* raises is not a behaviour of this specification.
FairSpec == Spec /\ WF_vars(Bridge)

\* ================================================================ claims
\* The id a response to line l must carry: the request's id, null when the
\* request has none.
ExpectedId(l) == IF l.id = Missing THEN NoneVal ELSE l.id

\* The method name a request names: '' when it has no method field.
NamedMethod(l) == IF l.method = Missing THEN "" ELSE l.method

\* The line in hand was accepted: it is neither blank nor the end of input.
Accepted(l) == l.kind \in {"notjson", "value", "object"}

\* The loop is back at its head with the line in hand fully processed.
Processed == pc = "while" /\ line.kind # "none"

\* The frame most recently written to stdout.
LastOut == out[Len(out)]

\* C1: every accepted frame (a non-blank line read while running, whatever it
\* holds) has exactly one response on stdout once the loop is done with it.
C1_OneResponsePerAcceptedFrame ==
    (Processed /\ Accepted(line)) => Len(out) = out_at_read + 1

\* A request per the data model whose method is registered.
WellFormedRegistered(l) ==
    /\ l.kind = "object"
    /\ l.method \in Methods
    /\ l.params.type \in {"dict", "missing"}

\* C2: a well-formed request with a registered method gets exactly one
\* response, whose id is the request's id (null when the id is null or
\* absent); nothing is written while the request is still in flight.
C2_RegisteredAnsweredOnceWithId ==
    WellFormedRegistered(line) =>
        /\ pc \in {"strip", "loads", "get", "lookup", "await", "send_result", "except"}
             => Len(out) = out_at_read
        /\ pc \in {"while", "readline", "exit"}
             => /\ Len(out) = out_at_read + 1
                /\ LastOut.id = ExpectedId(line)

\* C2 witness: the second request, without an id, was answered with id null
\* while an identity was loaded.
C2_Witness ==
    /\ Processed
    /\ WellFormedRegistered(line)
    /\ line.id = Missing
    /\ identity # NoneVal
    /\ Len(out) = 2
    /\ LastOut.id = NoneVal

\* A request whose method is a string (or absent) outside the dispatch table.
UnknownMethod(l) ==
    /\ l.kind = "object"
    /\ l.method # ListVal
    /\ NamedMethod(l) \notin Methods

\* C3: a request with an unregistered method gets one error response with
\* code -32601, its own id and the method name in the message, whatever its
\* params; no handler runs and the session state stays as it was.
C3_UnknownMethodNotFound ==
    UnknownMethod(line) =>
        /\ pc \notin {"await", "send_result", "except", "exit"}
        /\ touched = {}
        /\ session = session_at_read
        /\ pc \in {"strip", "loads", "get", "lookup"} => Len(out) = out_at_read
        /\ pc \in {"while", "readline"}
             => /\ Len(out) = out_at_read + 1
                /\ LastOut = ErrorResponse(ExpectedId(line), METHOD_NOT_FOUND,
                                           "Method not found", NamedMethod(line))

\* C3 witness: a request with neither method nor id and with params that are
\* no mapping was answered, after an identity had been loaded.
C3_Witness ==
    /\ Processed
    /\ UnknownMethod(line)
    /\ line.method = Missing
    /\ line.params.type = "list"
    /\ identity # NoneVal
    /\ LastOut.code = METHOD_NOT_FOUND

\* C4: a non-blank line that is not JSON gets exactly one error response with
\* id null and code -32700; no handler is dispatched, the session state is
\* unchanged and the loop stays running and goes on to the next line.
C4_ParseErrorAnswered ==
    line.kind = "notjson" =>
        /\ pc \in {"strip", "loads", "while", "readline"}
        /\ running
        /\ touched = {}
        /\ session = session_at_read
        /\ pc \in {"strip", "loads"} => Len(out) = out_at_read
        /\ pc \in {"while", "readline"}
             => /\ Len(out) = out_at_read + 1
                /\ LastOut = ErrorResponse(NoneVal, PARSE_ERROR, "Parse error", "")

\* C4 witness: the line after an unparsable one was read and answered with a
\* result.
C4_Witness ==
    /\ Processed
    /\ Len(out) = 2
    /\ out[1] = ErrorResponse(NoneVal, PARSE_ERROR, "Parse error", "")
    /\ out[2].kind = "result"

\* C5: when the dispatched handler raised, one error response with code -32000
\* and the request's id is written, the running flag stays true and the loop
\* returns to its head to read the next frame.
C5_HandlerFailureAnswered ==
    exc # "" =>
        /\ running
        /\ \/ pc = "except" /\ Len(out) = out_at_read
           \/ /\ pc = "while"
              /\ Len(out) = out_at_read + 1
              /\ LastOut = ErrorResponse(ExpectedId(line), INTERNAL_ERROR,
                                         "Internal error", exc)

\* C5 witness: after a handler failure was answered, the next request was
\* read and answered with a result.
C5_Witness ==
    /\ Processed
    /\ Len(out) = 2
    /\ out[1].code = INTERNAL_ERROR
    /\ out[2].kind = "result"

\* C6: a shutdown request is answered with {"success": true}; from then on
\* the shutdown line stays the last line read and its response the last frame
\* written, whatever is still buffered on stdin.
C6_ShutdownResponseIsLast ==
    /\ (line.kind = "object" /\ line.method = "shutdown"
            /\ pc \in {"send_result", "while", "readline", "exit"}) => ~running
    /\ ~running =>
        /\ line.kind = "object" /\ line.method = "shutdown"
        /\ \/ /\ pc = "send_result"
              /\ result = Result("success")
              /\ Len(out) = out_at_read
           \/ /\ pc \in {"while", "exit"}
              /\ Len(out) = out_at_read + 1
              /\ LastOut = ResultResponse(ExpectedId(line), Result("success"))

\* C6 witness: the loop has exited after answering shutdown while a line sent
\* later is still unread on stdin.
C6_Witness ==
    /\ pc = "exit"
    /\ ~running
    /\ stdin # << >>
    /\ LastOut = ResultResponse(ExpectedId(line), Result("success"))

\* The shape of the result each handler returns.
ResultType(m) ==
    CASE m \in {"generate_identity", "load_identity", "import_identity"} -> "is_loaded"
      [] m = "export_identity" -> "export_data"
      [] m = "add_contact" -> "contact"
      [] m = "list_contacts" -> "contacts"
      [] m = "send_message" -> "text"
      [] m = "send_voice_message" -> "voice"
      [] m \in {"poll_mailbox", "get_messages"} -> "messages"
      [] m = "get_network_status" -> "network_status"
      [] OTHER -> "success"

\* Response r is the answer to request line l.
Answers(r, l) ==
    CASE l.kind = "notjson" ->
           r = ErrorResponse(NoneVal, PARSE_ERROR, "Parse error", "")
      [] l.kind = "object" /\ l.method # ListVal /\ NamedMethod(l) \notin Methods ->
           r = ErrorResponse(ExpectedId(l), METHOD_NOT_FOUND, "Method not found",
                             NamedMethod(l))
      [] l.kind = "object" /\ l.method \in Methods ->
           /\ r.id = ExpectedId(l)
           /\ \/ r.kind = "result" /\ r.result.type = ResultType(l.method)
              \/ r.kind = "error" /\ r.code = INTERNAL_ERROR
      [] OTHER -> FALSE

\* Every request read so far was successful, failing, unknown-method or
\* unparsable: none was dropped with a traceback.
OnlyAnsweredKinds == logged = 0

C7_LatestAnswersLatest ==
    (Processed /\ Accepted(line) /\ OnlyAnsweredKinds) =>
        /\ Len(out) = accepted
        /\ Answers(out[accepted], line)

C7_AppendOnly ==
    \/ out' = out
    \/ Len(out') = Len(out) + 1 /\ SubSeq(out', 1, Len(out)) = out

\* C7: responses appear in the order of the requests: when the i-th request
\* has been processed the i-th frame on stdout answers it, and frames already
\* written are never changed or reordered.
C7_ResponsesInRequestOrder ==
    [](C7_LatestAnswersLatest) /\ [][C7_AppendOnly]_vars

\* C7 witness: two requests of different kinds, a successful one and then an
\* unparsable one, were answered in that order.
C7_Witness ==
    /\ Processed
    /\ OnlyAnsweredKinds
    /\ accepted = 2
    /\ Len(out) = 2
    /\ out[1].kind = "result"
    /\ out[2].code = PARSE_ERROR

\* A generate_identity request whose params mapping has no passphrase or an
\* empty one.
GenerateWithoutPassphrase(l) ==
    /\ l.kind = "object"
    /\ l.method = "generate_identity"
    /\ l.params.type \in {"dict", "missing"}
    /\ l.params.passphrase \in {Missing, ""}

\* C8: generate_identity with an empty or missing passphrase is answered with
\* an internal error naming the required passphrase, and the identity, the
\* contact store handle and the running flag stay as they were.
C8_MissingPassphraseRejected ==
    GenerateWithoutPassphrase(line) =>
        /\ session = session_at_read
        /\ pc \notin {"send_result", "exit"}
        /\ pc \in {"while", "readline"}
             => /\ Len(out) = out_at_read + 1
                /\ LastOut = ErrorResponse(ExpectedId(line), INTERNAL_ERROR,
                                           "Internal error", "Passphrase is required")

\* C8 witness: the request with an empty passphrase was rejected while an
\* identity generated earlier was loaded.
C8_Witness ==
    /\ Processed
    /\ GenerateWithoutPassphrase(line)
    /\ line.params.passphrase = ""
    /\ identity # NoneVal
    /\ LastOut.detail = "Passphrase is required"

NeedsIdentity(l) ==
    /\ l.kind = "object"
    /\ l.method \in {"export_identity", "send_message", "send_voice_message"}

\* C10: with no identity loaded, export_identity, send_message and
\* send_voice_message fail with the internal error 'No identity loaded'
\* whatever their params, and the identity stays unloaded; with an identity
\* loaded they do not fail with that error.
C10_IdentityRequired ==
    NeedsIdentity(line) =>
        IF session_at_read[1] = NoneVal
          THEN /\ identity = NoneVal
               /\ pc \notin {"send_result", "exit"}
               /\ pc \in {"while", "readline"}
                    => /\ Len(out) = out_at_read + 1
                       /\ LastOut = ErrorResponse(ExpectedId(line), INTERNAL_ERROR,
                                                  "Internal error", "No identity loaded")
          ELSE /\ identity # NoneVal
               /\ exc # "No identity loaded"
               /\ pc \in {"while", "readline"}
                    => /\ Len(out) = out_at_read + 1
                       /\ LastOut.detail # "No identity loaded"

\* C10 witness: send_message with params that are no mapping failed on the
\* missing identity.
C10_Witness ==
    /\ Processed
    /\ NeedsIdentity(line)
    /\ line.method = "send_message"
    /\ line.params.type = "list"
    /\ identity = NoneVal
    /\ LastOut.detail = "No identity loaded"

\* Some identity-setting request has succeeded: its result is on stdout or
\* about to be sent.
IdentityWasSet ==
    \/ \E i \in 1..Len(out) : out[i].result.type = "is_loaded"
    \/ pc = "send_result" /\ result.type = "is_loaded"

\* C11: the identity starts unloaded, is loaded exactly when a
\* generate_identity, load_identity or import_identity has succeeded, and
\* once loaded is never unloaded again.
C11_LoadedIffIdentitySet ==
    /\ identity # NoneVal <=> IdentityWasSet
    /\ session_at_read[1] # NoneVal => identity # NoneVal
    /\ (pc = "send_result" /\ result.type = "is_loaded")
         => method \in {"generate_identity", "load_identity", "import_identity"}

\* C11 witness: an identity was loaded and a later load_identity that failed
\* in the keystore left it loaded.
C11_Witness ==
    /\ Processed
    /\ Len(out) = 2
    /\ out[1].result.type = "is_loaded"
    /\ line.method = "load_identity"
    /\ out[2].detail = KeyStoreError
    /\ identity # NoneVal

\* The parameters each method requires (spec section 6).
Required(m) ==
    CASE m \in {"generate_identity", "load_identity"} -> {"passphrase"}
      [] m = "import_identity" -> {"import_data", "passphrase"}
      [] m = "add_contact" -> {"label", "public_key"}
      [] m \in {"remove_contact", "verify_contact", "send_voice_message"} -> {"contact_id"}
      [] m = "send_message" -> {"contact_id", "text"}
      [] OTHER -> {}

\* A request with a params mapping that lacks a parameter its method requires.
MissingRequired(l) ==
    /\ l.kind = "object"
    /\ l.method \in Methods
    /\ l.params.type \in {"dict", "missing"}
    /\ \E key \in Required(l.method) : l.params[key] = Missing

\* C12: a request missing a required parameter fails before its handler has
\* called any collaborator and before the contact store handle is created.
C12_ValidationBeforeCollaborators ==
    (MissingRequired(line) /\ pc \in {"await", "send_result", "except"}) =>
        /\ touched = {}
        /\ contacts = session_at_read[2]
        /\ pc # "send_result"

\* The stub methods.
Stubs == {"poll_mailbox", "get_messages", "configure_relay", "configure_mailbox"}

\* C13: every request naming a stub method, whatever its params value, is
\* answered with the fixed neutral result and leaves the session state as it
\* was.
C13_StubsNeverFail ==
    (line.kind = "object" /\ line.method \in Stubs) =>
        /\ session = session_at_read
        /\ pc # "except"
        /\ pc \in {"while", "readline"}
             => /\ Len(out) = out_at_read + 1
                /\ LastOut = ResultResponse(ExpectedId(line),
                                            Result(ResultType(line.method)))

\* C14: text left unterminated at the end of input is not decoded, not
\* dispatched and not answered.
C14_PartialTextIsNoFrame ==
    ~line.nl =>
        /\ pc \notin {"loads", "get", "lookup", "await", "send_result", "except"}
        /\ Len(out) = out_at_read

\* A line whose processing raises outside the handler call: bytes readline
\* cannot decode, a decoded value without get(), or a method that cannot be
\* looked up.
RaisesOutsideHandler(l) ==
    \/ l.kind = "undecodable"
    \/ l.kind = "value"
    \/ l.kind = "object" /\ l.method = ListVal

\* C15: an exception raised while a line is read, while the fields of a
\* decoded frame are extracted or while the handler is looked up writes nothing to stdout: it is logged to
\* stderr, the session state is unchanged and the loop returns to its head.
C15_OutsideFailuresOnlyLogged ==
    RaisesOutsideHandler(line) =>
        /\ pc \in {"strip", "loads", "get", "lookup", "while", "readline"}
        /\ Len(out) = out_at_read
        /\ session = session_at_read
        /\ running
        /\ touched = {}
        /\ pc \in {"strip", "loads", "get", "lookup"} => logged = logged_at_read
        /\ pc \in {"while", "readline"} => logged = logged_at_read + 1

\* C15 witness: after an identity was loaded, a request whose method is an
\* array was dropped with one traceback and no response.
C15_Witness ==
    /\ Processed
    /\ line.kind = "object"
    /\ line.method = ListVal
    /\ identity # NoneVal
    /\ logged = 1
    /\ Len(out) = 1

\* The frame read last is finished: answered, logged or discarded as blank.
C16_PreviousFrameFinished ==
    (pc = "readline" /\ line.kind # "none") =>
        /\ result = NoResult
        /\ exc = ""
        /\ \/ Len(out) = out_at_read + 1 /\ logged = logged_at_read
           \/ Len(out) = out_at_read /\ logged = logged_at_read + 1
           \/ Len(out) = out_at_read /\ logged = logged_at_read /\ line.kind = "blank"

\* Each step belongs to the one frame in hand: a frame is taken only at
\* readline, a write appends one whole response, and only the awaited handler
\* changes the session.
C16_OneStepAtATime ==
    /\ line' # line => pc = "readline"
    /\ out' # out => /\ pc \in {"loads", "lookup", "send_result", "except"}
                     /\ Len(out') = Len(out) + 1
                     /\ SubSeq(out', 1, Len(out)) = out
    /\ session' # session => pc = "await" /\ line' = line

\* C16: requests are processed strictly one at a time: the next frame is read
\* only after the previous one is finished and its response, if any, written;
\* writes never overlap and only the single running handler changes the
\* session.
C16_StrictlySequential ==
    [](C16_PreviousFrameFinished) /\ [][C16_OneStepAtATime]_vars

\* The bridge is about to read a second frame, already waiting, after the
\* first one set the identity and was answered.
C16_Witness ==
    /\ pc = "readline"
    /\ stdin # << >>
    /\ Len(out) = 1
    /\ out[1].result.type = "is_loaded"
    /\ identity # NoneVal

\* The loop has left through break at end of input, or through its condition
\* after the shutdown request was answered.
C17_ExitCause ==
    pc = "exit" =>
        \/ /\ line.kind = "none"
           /\ closed
           /\ stdin = << >>
           /\ Len(out) = out_at_read
        \/ /\ ~running
           /\ line.kind = "object"
           /\ line.method = "shutdown"
           /\ LastOut = ResultResponse(ExpectedId(line), Result("success"))

\* C17: once the parent has closed the input the loop eventually exits, at end
\* of input or after a shutdown request was answered, and reading end of input
\* writes no response.
C17_LoopTerminates ==
    (closed ~> pc = "exit") /\ [](C17_ExitCause)

\* The loop has left at end of input after answering two requests.
C17_Witness ==
    /\ pc = "exit"
    /\ running
    /\ closed
    /\ line.kind = "none"
    /\ Len(out) = 2

ContactOps == {"add_contact", "remove_contact", "list_contacts", "verify_contact"}

\* C18: the contact store handle is created by the first contact operation of
\* the process, whichever of the four it is, and is then reused: never
\* replaced, never reset.
C18_HandleCreatedOnFirstUse ==
    /\ managers <= 1
    /\ contacts = managers
    /\ session_at_read[2] # 0 => contacts = session_at_read[2]
    /\ (Processed /\ line.kind = "object" /\ line.method \in ContactOps) => contacts # 0

\* C19: a line of whitespace only is discarded: it is not decoded, no handler
\* is dispatched for it, nothing is written or logged, the session is as it
\* was, and the loop goes on running.
C19_BlankLineDiscarded ==
    line.kind = "blank" =>
        /\ pc \in {"strip", "while", "readline"}
        /\ Len(out) = out_at_read
        /\ logged = logged_at_read
        /\ session = session_at_read
        /\ running
        /\ touched = {}
        /\ result = NoResult
        /\ exc = ""

\* A blank line came after a request that set the identity; the loop is about
\* to read the next line.
C19_Witness ==
    /\ pc = "readline"
    /\ line.kind = "blank"
    /\ Len(out) = 1
    /\ out[1].result.type = "is_loaded"
    /\ identity # NoneVal

IdentitySetters == {"generate_identity", "load_identity", "import_identity"}

\* The request in hand has failed: its handler raised, or its error response
\* has been written.
Failed ==
    \/ pc = "except"
    \/ pc \in {"while", "readline"} /\ Len(out) = out_at_read + 1 /\ LastOut.kind = "error"

\* C20: generate_identity, load_identity or import_identity that ends in an
\* error response leaves the identity exactly as it was before the request.
C20_FailedSetterKeepsIdentity ==
    (line.kind = "object" /\ line.method \in IdentitySetters /\ Failed) =>
        /\ identity = session_at_read[1]
        /\ contacts = session_at_read[2]
        /\ running

\* An identity was generated, then an import with a bad public key failed:
\* the generated identity is still held.
C20_Witness ==
    /\ Processed
    /\ Len(out) = 2
    /\ out[1].result.type = "is_loaded"
    /\ line.method = "import_identity"
    /\ out[2].kind = "error"
    /\ out[2].detail = PublicKeyError
    /\ identity = out[1].result.public_key

====
